---- MODULE Spec2Model ----
(***************************************************************************)
(* Geometry kernel of the mirth ray tracer: Vec3 / Point3, Ray3, Matrix4   *)
(* (src/utility/linalg.rs) and IntersectionInfo (src/shapes/mod.rs).       *)
(*                                                                         *)
(* Float is modelled as a miniature IEEE-754 binary format: MantBits bits  *)
(* of significand, exponents 0..ExpMax above the smallest unit, round to   *)
(* nearest (ties to even), overflow to +/-infinity and NaN for the invalid *)
(* operations.  A finite value is the integer number of smallest units it  *)
(* holds; the float 1.0 is One units.  The sign of zero is not modelled   *)
(* (no operation of the kernel observes it).                               *)
(***************************************************************************)
EXTENDS Integers, Sequences, FiniteSets

\* ------------------------------------------------------------------ Float

\* Bits of the significand of the miniature float format.
MantBits == 3
\* Largest exponent (above the smallest unit) of a finite value.
ExpMax == 3
\* Number of fractional bits: 1.0 is 2^FracBits smallest units.
FracBits == 3

One == 2 ^ FracBits
MaxFinite == (2 ^ MantBits - 1) * 2 ^ ExpMax
\* Float::INFINITY, Float::NEG_INFINITY and NaN, as values outside the finite range.
PosInf == 4 * MaxFinite
NegInf == 0 - PosInf
NaN == PosInf + 1

AbsInt(n) == IF n < 0 THEN 0 - n ELSE n
SignInt(n) == IF n < 0 THEN 0 - 1 ELSE 1

IsNaN(x) == x = NaN
IsInf(x) == x = PosInf \/ x = NegInf
IsFinite(x) == ~IsNaN(x) /\ ~IsInf(x)

\* The exponent of the exact magnitude a / den: the least k with a / den below
\* 2^(MantBits + k), lim being 2^(MantBits + k) * den.
RECURSIVE Exponent(_, _, _)
Exponent(a, lim, k) == IF a < lim THEN k ELSE Exponent(a, 2 * lim, k + 1)

\* The exact rational num / den (den > 0), rounded to the nearest value of the
\* format, ties to the even significand; beyond MaxFinite it overflows to infinity.
RoundRat(num, den) ==
    LET a == AbsInt(num)
        e == Exponent(a, (2 ^ MantBits) * den, 0)
        q == den * (2 ^ e)
        m == a \div q
        r == a % q
        up == (2 * r > q) \/ (2 * r = q /\ m % 2 = 1)
        mag == (IF up THEN m + 1 ELSE m) * (2 ^ e)
    IN  IF mag > MaxFinite THEN SignInt(num) * PosInf ELSE SignInt(num) * mag

\* A finite integer number of units that the format represents exactly.
IsRep(n) == AbsInt(n) <= MaxFinite /\ RoundRat(n, 1) = n

FNeg(x) == IF IsNaN(x) THEN NaN ELSE 0 - x
FAbs(x) == IF IsNaN(x) THEN NaN ELSE AbsInt(x)

\* x + y of the Float type.
FAdd(x, y) ==
    IF IsNaN(x) \/ IsNaN(y) THEN NaN
    ELSE IF IsInf(x) /\ IsInf(y) THEN (IF x = y THEN x ELSE NaN)
    ELSE IF IsInf(x) THEN x
    ELSE IF IsInf(y) THEN y
    ELSE RoundRat(x + y, 1)

\* x - y of the Float type.
FSub(x, y) == FAdd(x, FNeg(y))

\* x * y of the Float type.
FMul(x, y) ==
    IF IsNaN(x) \/ IsNaN(y) THEN NaN
    ELSE IF IsInf(x) \/ IsInf(y)
         THEN (IF x = 0 \/ y = 0 THEN NaN ELSE SignInt(x) * SignInt(y) * PosInf)
    ELSE RoundRat(x * y, One)

\* x / y of the Float type.
FDiv(x, y) ==
    IF IsNaN(x) \/ IsNaN(y) THEN NaN
    ELSE IF IsInf(x) THEN (IF IsInf(y) THEN NaN
                           ELSE IF y < 0 THEN FNeg(x) ELSE x)
    ELSE IF IsInf(y) THEN 0
    ELSE IF y = 0 THEN (IF x = 0 THEN NaN ELSE SignInt(x) * PosInf)
    ELSE RoundRat(SignInt(y) * x * One, AbsInt(y))

\* x < y of the Float type: false as soon as one side is NaN.
FLt(x, y) == ~IsNaN(x) /\ ~IsNaN(y) /\ x < y

\* The finite values of the format.
Floats == {n \in (0 - MaxFinite) .. MaxFinite : IsRep(n)}

\* ------------------------------------------------------------------ config

\* crate::config::FLOAT_ERR: the small positive tolerance, in smallest units.
FLOAT_ERR == 2

\* SignCheckable::is_zero for Float: the magnitude is below FLOAT_ERR.
is_zero(x) == FLt(FAbs(x), FLOAT_ERR)

\* ------------------------------------------------------------------ Vec3

\* Vec3::new: the wrapped cgmath::Vector3 holds the three coordinates.
Vec3_new(x, y, z) == [x |-> x, y |-> y, z |-> z]

\* impl Default for Vec3
Vec3_default == Vec3_new(0, 0, 0)

\* Point3::origin
Point3_origin == Vec3_new(0, 0, 0)

Vec3_x(v) == v.x
Vec3_y(v) == v.y
Vec3_z(v) == v.z

\* Faulty variant of set_x: the assignment also lands in y.
set_x_both(v, x) == [v EXCEPT !.x = x, !.y = x]

set_x(v, x) == [v EXCEPT !.x = x]
set_y(v, y) == [v EXCEPT !.y = y]
set_z(v, z) == [v EXCEPT !.z = z]

\* Faulty variant of are_equal: the z comparison is left out.
are_equal_xy(v1, v2) ==
    /\ is_zero(FSub(Vec3_x(v1), Vec3_x(v2)))
    /\ is_zero(FSub(Vec3_y(v1), Vec3_y(v2)))

\* Vec3::are_equal: every coordinate difference is_zero.
are_equal(v1, v2) ==
    /\ is_zero(FSub(Vec3_x(v1), Vec3_x(v2)))
    /\ is_zero(FSub(Vec3_y(v1), Vec3_y(v2)))
    /\ is_zero(FSub(Vec3_z(v1), Vec3_z(v2)))

\* cgmath::dot of the two wrapped vectors: the sum of the coordinate products.
dot(v1, v2) ==
    FAdd(FAdd(FMul(v1.x, v2.x), FMul(v1.y, v2.y)), FMul(v1.z, v2.z))

\* cgmath's Vector3 + Vector3 and Vector3 - Vector3, coordinate by coordinate.
CgAdd(u, v) == [x |-> FAdd(u.x, v.x), y |-> FAdd(u.y, v.y), z |-> FAdd(u.z, v.z)]
CgSub(u, v) == [x |-> FSub(u.x, v.x), y |-> FSub(u.y, v.y), z |-> FSub(u.z, v.z)]

\* Vec3 + Vec3, Vec3 + &Vec3, &Vec3 + Vec3, &Vec3 + &Vec3
add_vv(self, rhs) == LET v == CgAdd(self, rhs) IN Vec3_new(v.x, v.y, v.z)
add_vr(self, rhs) == LET v == CgAdd(self, rhs) IN Vec3_new(v.x, v.y, v.z)
add_rv(self, rhs) == LET v == CgAdd(self, rhs) IN Vec3_new(v.x, v.y, v.z)
\* Faulty variant of &Vec3 + &Vec3: z is taken from self alone.
add_rr_zx(self, rhs) == LET v == CgAdd(self, rhs) IN Vec3_new(v.x, v.y, self.z)
add_rr(self, rhs) == LET v == CgAdd(self, rhs) IN Vec3_new(v.x, v.y, v.z)

\* Vec3 - Vec3, Vec3 - &Vec3, &Vec3 - Vec3, &Vec3 - &Vec3
sub_vv(self, rhs) == LET v == CgSub(self, rhs) IN Vec3_new(v.x, v.y, v.z)
\* Faulty variant of Vec3 - &Vec3: the operands are swapped.
sub_vr_swapped(self, rhs) == LET v == CgSub(rhs, self) IN Vec3_new(v.x, v.y, v.z)
sub_vr(self, rhs) == LET v == CgSub(self, rhs) IN Vec3_new(v.x, v.y, v.z)
sub_rv(self, rhs) == LET v == CgSub(self, rhs) IN Vec3_new(v.x, v.y, v.z)
sub_rr(self, rhs) == LET v == CgSub(self, rhs) IN Vec3_new(v.x, v.y, v.z)

\* Float * Vec3, Float * &Vec3
mul_v(self, rhs) ==
    Vec3_new(FMul(self, Vec3_x(rhs)), FMul(self, Vec3_y(rhs)), FMul(self, Vec3_z(rhs)))
mul_r(self, rhs) ==
    Vec3_new(FMul(self, Vec3_x(rhs)), FMul(self, Vec3_y(rhs)), FMul(self, Vec3_z(rhs)))

\* ------------------------------------------------------------------ Ray3

\* Faulty variant of Ray3::new: min_t starts at zero.
Ray3_new_zero_min(origin, direction) ==
    [origin |-> origin, direction |-> direction, min_t |-> 0, max_t |-> PosInf]

\* Ray3::new
Ray3_new(origin, direction) ==
    [origin |-> origin, direction |-> direction, min_t |-> FLOAT_ERR, max_t |-> PosInf]

\* #[derive(Default)] for Ray3: every field is its type's default, 0.0 for a Float.
Ray3_default ==
    [origin |-> Vec3_default, direction |-> Vec3_default, min_t |-> 0, max_t |-> 0]

\* Faulty variant of is_in_range: the bounds are included.
is_in_range_closed(self, t) ==
    ~FLt(t, self.min_t) /\ ~FLt(self.max_t, t) /\ ~IsNaN(t)

\* Ray3::is_in_range
is_in_range(self, t) == FLt(self.min_t, t) /\ FLt(t, self.max_t)

\* Faulty variant of eval: outside the valid interval it returns the origin.
eval_checked(self, t) ==
    IF is_in_range(self, t) THEN add_rv(self.origin, mul_r(t, self.direction))
    ELSE self.origin

\* Ray3::eval: &self.origin + t * &self.direction
eval(self, t) == add_rv(self.origin, mul_r(t, self.direction))

\* ------------------------------------------------------------------ Matrix4

\* A cgmath::Matrix4 is four columns x, y, z, w of four Floats: m[column][row].
\* cgmath::Matrix4::identity
CgIdentity ==
    << <<One, 0, 0, 0>>, <<0, One, 0, 0>>, <<0, 0, One, 0>>, <<0, 0, 0, One>> >>

\* impl Default for Matrix4
Matrix4_default == [internal |-> CgIdentity]

\* cgmath's Matrix4 * Vector4: the columns scaled by the vector's coordinates,
\* summed from the left.
CgMulVec4(m, v) ==
    [r \in 1 .. 4 |->
        FAdd(FAdd(FAdd(FMul(m[1][r], v[1]), FMul(m[2][r], v[2])),
                  FMul(m[3][r], v[3])),
             FMul(m[4][r], v[4]))]

\* cgmath's Point3::from_homogeneous: the first three coordinates times 1 / w.
CgFromHomogeneous(v) ==
    LET inv == FDiv(One, v[4])
    IN  [x |-> FMul(v[1], inv), y |-> FMul(v[2], inv), z |-> FMul(v[3], inv)]

\* cgmath's Transform::transform_point of a Matrix4: the point extended with w = 1.
CgTransformPoint(m, p) == CgFromHomogeneous(CgMulVec4(m, <<p.x, p.y, p.z, One>>))

\* cgmath's Transform::transform_vector of a Matrix4: the vector extended with w = 0.
CgTransformVector(m, v) ==
    LET h == CgMulVec4(m, <<v.x, v.y, v.z, 0>>)
    IN  [x |-> h[1], y |-> h[2], z |-> h[3]]

\* Faulty variant of transform_point: the translation is left out.
transform_point_linear(self, point) ==
    LET xformed_point == CgTransformVector(self.internal, point)
    IN  Vec3_new(xformed_point.x, xformed_point.y, xformed_point.z)

\* Matrix4::transform_point
transform_point(self, point) ==
    LET internal_point == [x |-> Vec3_x(point), y |-> Vec3_y(point), z |-> Vec3_z(point)]
        xformed_point == CgTransformPoint(self.internal, internal_point)
    IN  Vec3_new(xformed_point.x, xformed_point.y, xformed_point.z)

\* Matrix4::transform_vector
transform_vector(self, vector) ==
    LET xformed_vec == CgTransformVector(self.internal, vector)
    IN  Vec3_new(xformed_vec.x, xformed_vec.y, xformed_vec.z)

\* The translation column of a matrix, as a vector.
Translation(self) ==
    Vec3_new(self.internal[4][1], self.internal[4][2], self.internal[4][3])

\* Two matrices with the same linear part and bottom row (all but the translation).
SameButTranslation(m1, m2) ==
    /\ \A c \in 1 .. 3 : m1.internal[c] = m2.internal[c]
    /\ m1.internal[4][4] = m2.internal[4][4]

\* An affine matrix built by the transform module from a linear part (three
\* columns) and a translation.
Affine(cx, cy, cz, tr) ==
    [internal |-> << <<cx[1], cx[2], cx[3], 0>>, <<cy[1], cy[2], cy[3], 0>>,
                     <<cz[1], cz[2], cz[3], 0>>, <<tr[1], tr[2], tr[3], One>> >>]

\* ------------------------------------------------------------------ IntersectionInfo

\* Faulty variant of the default IntersectionInfo: t starts at zero.
IntersectionInfo_default_zero_t ==
    [did_hit |-> FALSE, point |-> Vec3_default, t |-> 0]

\* impl Default for IntersectionInfo (Point3::default is Vec3::default)
IntersectionInfo_default ==
    [did_hit |-> FALSE, point |-> Vec3_default, t |-> PosInf]

\* IntersectionInfo::no_intersection: did_hit: false, ..Default::default()
no_intersection == [IntersectionInfo_default EXCEPT !.did_hit = FALSE]

\* What an Intersectable returns for a hit at parameter t of the ray.
Hit(ray0, t) == [did_hit |-> TRUE, point |-> eval(ray0, t), t |-> t]

\* A caller's plain minimum-reduction over t: the first result of least t.
RECURSIVE MinByT(_)
MinByT(results) ==
    IF Len(results) = 1 THEN results[1]
    ELSE LET rest == MinByT(Tail(results))
         IN  IF FLt(rest.t, results[1].t) THEN rest ELSE results[1]

\* ------------------------------------------------------------------ state

\* a, b, c: the caller's vectors (a is the one the setters change); s: the scalar
\* argument of the last call; ray, mat, info: the caller's ray, matrix and last
\* intersection result; results: the intersection results gathered for a nearest-hit
\* selection; op: the last call; outV, outB, outF: what it returned.
VARIABLES a, b, c, s, ray, mat, info, results, op, outV, outB, outF

vars == <<a, b, c, s, ray, mat, info, results, op, outV, outB, outF>>

\* Longest list of intersection results gathered before a selection.
MaxResults == 3

\* Coordinates the callers use: zero, a value above the tolerance, 1.5 and the
\* largest finite value.
CompSet == {x \in {0, 3, One + One \div 2, MaxFinite} : IsRep(x)}
SmallComp == {0, One}

VecPoolB == {v \in {Vec3_new(0, 0, 0), Vec3_new(1, 1, 1), Vec3_new(1, 0, 3),
                    Vec3_new(0 - One, FLOAT_ERR, MaxFinite),
                    Vec3_new(MaxFinite, One, 0 - 3)} :
                IsRep(v.x) /\ IsRep(v.y) /\ IsRep(v.z)}
VecPoolC == {Vec3_new(0, 0, 0), Vec3_new(1, 1, 1), Vec3_new(3, 0 - One, 1)}
RayPool == {v \in {Vec3_new(0, 0, 0), Vec3_new(0, 1, One),
                   Vec3_new(One + One \div 2, 0 - One, 3)} :
               IsRep(v.x) /\ IsRep(v.y) /\ IsRep(v.z)}
TinyPool == {Vec3_new(0, 0, 0), Vec3_new(0, 1, One)}

\* Scalars handed to s * v and to eval.
ScalarSet == {x \in {0, 1, One \div 2, One, One + One \div 2, 0 - One} : IsRep(x)}
\* Parameters handed to is_in_range, with infinity and NaN.
ParamSet == {0, 1, FLOAT_ERR, 3, One, MaxFinite, PosInf, NaN, 0 - One}
\* Parameters at which the shapes report hits.
HitSet == {3, One, MaxFinite}
\* Values a caller overrides min_t and max_t with.
MinSet == {0, 1, FLOAT_ERR, One}
MaxSet == {0, 3, One, MaxFinite, PosInf}

\* Matrices the transform module builds: scalings, a shear and translations of them.
LinearPool == { << <<One, 0, 0>>, <<0, One, 0>>, <<0, 0, One>> >>,
                << <<One + One, 0, 0>>, <<0, One \div 2, 0>>, <<0, 0, 0 - One>> >>,
                << <<One, 1, 0>>, <<3, One, 0>>, <<0, 0, One>> >> }
TranslationPool == { <<0, 0, 0>>, <<One, 0, 3>>, <<1, 0 - One, One + One>> }
MatPool == {Affine(l[1], l[2], l[3], tr) : l \in LinearPool, tr \in TranslationPool}

Init ==
    /\ a = Vec3_default
    /\ b = Vec3_default
    /\ c = Vec3_default
    /\ s = 0
    /\ ray = Ray3_new(Point3_origin, Vec3_default)
    /\ mat = Matrix4_default
    /\ info = IntersectionInfo_default
    /\ results = <<>>
    /\ op = "init"
    /\ outV = Vec3_default
    /\ outB = FALSE
    /\ outF = 0

\* The call recorded: its name, its scalar argument and what it returned.
Done(name, arg, v, bl, f) ==
    /\ op' = name
    /\ s' = arg
    /\ outV' = v
    /\ outB' = bl
    /\ outF' = f

\* ---------------------------------------------------------------- Vec3 calls

NewA(pool) ==
    \E v \in pool :
        /\ a' = Vec3_new(v.x, v.y, v.z)
        /\ Done("new_a", 0, Vec3_default, FALSE, 0)
        /\ UNCHANGED <<b, c, ray, mat, info, results>>

NewB(pool) ==
    \E v \in pool :
        /\ b' = Vec3_new(v.x, v.y, v.z)
        /\ Done("new_b", 0, Vec3_default, FALSE, 0)
        /\ UNCHANGED <<a, c, ray, mat, info, results>>

NewC(pool) ==
    \E v \in pool :
        /\ c' = Vec3_new(v.x, v.y, v.z)
        /\ Done("new_c", 0, Vec3_default, FALSE, 0)
        /\ UNCHANGED <<a, b, ray, mat, info, results>>

SetX(S) ==
    \E x \in S :
        /\ a' = set_x(a, x)
        /\ Done("set_x", x, Vec3_default, FALSE, 0)
        /\ UNCHANGED <<b, c, ray, mat, info, results>>

SetY(S) ==
    \E y \in S :
        /\ a' = set_y(a, y)
        /\ Done("set_y", y, Vec3_default, FALSE, 0)
        /\ UNCHANGED <<b, c, ray, mat, info, results>>

SetZ(S) ==
    \E z \in S :
        /\ a' = set_z(a, z)
        /\ Done("set_z", z, Vec3_default, FALSE, 0)
        /\ UNCHANGED <<b, c, ray, mat, info, results>>

\* What a call through shared references leaves as it was.
Operands == <<a, b, c, ray, mat, info, results>>

GetX == Done("x", 0, Vec3_default, FALSE, Vec3_x(a)) /\ UNCHANGED Operands
GetY == Done("y", 0, Vec3_default, FALSE, Vec3_y(a)) /\ UNCHANGED Operands
GetZ == Done("z", 0, Vec3_default, FALSE, Vec3_z(a)) /\ UNCHANGED Operands

AreEqual == Done("are_equal", 0, Vec3_default, are_equal(a, b), 0) /\ UNCHANGED Operands
AreEqualSelf == Done("are_equal_self", 0, Vec3_default, are_equal(a, a), 0) /\ UNCHANGED Operands
Dot == Done("dot", 0, Vec3_default, FALSE, dot(a, b)) /\ UNCHANGED Operands

AddVV == Done("add_vv", 0, add_vv(a, b), FALSE, 0) /\ UNCHANGED Operands
AddVR == Done("add_vr", 0, add_vr(a, b), FALSE, 0) /\ UNCHANGED Operands
AddRV == Done("add_rv", 0, add_rv(a, b), FALSE, 0) /\ UNCHANGED Operands
AddRR == Done("add_rr", 0, add_rr(a, b), FALSE, 0) /\ UNCHANGED Operands
SubVV == Done("sub_vv", 0, sub_vv(a, b), FALSE, 0) /\ UNCHANGED Operands
SubVR == Done("sub_vr", 0, sub_vr(a, b), FALSE, 0) /\ UNCHANGED Operands
SubRV == Done("sub_rv", 0, sub_rv(a, b), FALSE, 0) /\ UNCHANGED Operands
SubRR == Done("sub_rr", 0, sub_rr(a, b), FALSE, 0) /\ UNCHANGED Operands
MulV(S) == \E k \in S : Done("mul_v", k, mul_v(k, a), FALSE, 0) /\ UNCHANGED Operands
MulR(S) == \E k \in S : Done("mul_r", k, mul_r(k, a), FALSE, 0) /\ UNCHANGED Operands

\* (&a + &b) + &c, the left-grouped sum of three vectors.
Add3 == Done("add3", 0, add_vr(add_rr(a, b), c), FALSE, 0) /\ UNCHANGED Operands

\* ---------------------------------------------------------------- Ray3 calls

\* Ray3::new(a.clone(), b.clone())
RayNew ==
    /\ ray' = Ray3_new(a, b)
    /\ Done("Ray3::new", 0, Vec3_default, FALSE, 0)
    /\ UNCHANGED <<a, b, c, mat, info, results>>

\* Ray3::default()
RayDefault ==
    /\ ray' = Ray3_default
    /\ Done("Ray3::default", 0, Vec3_default, FALSE, 0)
    /\ UNCHANGED <<a, b, c, mat, info, results>>

\* ray.min_t = m, through the public field
SetMinT(S) ==
    \E m \in S :
        /\ ray' = [ray EXCEPT !.min_t = m]
        /\ Done("min_t=", m, Vec3_default, FALSE, 0)
        /\ UNCHANGED <<a, b, c, mat, info, results>>

\* ray.max_t = m, through the public field
SetMaxT(S) ==
    \E m \in S :
        /\ ray' = [ray EXCEPT !.max_t = m]
        /\ Done("max_t=", m, Vec3_default, FALSE, 0)
        /\ UNCHANGED <<a, b, c, mat, info, results>>

IsInRange(S) == \E t \in S : Done("is_in_range", t, Vec3_default, is_in_range(ray, t), 0) /\ UNCHANGED Operands

Eval(S) == \E t \in S : Done("eval", t, eval(ray, t), FALSE, 0) /\ UNCHANGED Operands

\* ---------------------------------------------------------------- Matrix4 calls

\* Matrix4::default()
MatDefault ==
    /\ mat' = Matrix4_default
    /\ Done("Matrix4::default", 0, Vec3_default, FALSE, 0)
    /\ UNCHANGED <<a, b, c, ray, info, results>>

\* A matrix handed over by the transform module.
MatFrom(pool) ==
    \E m \in pool :
        /\ mat' = m
        /\ Done("matrix", 0, Vec3_default, FALSE, 0)
        /\ UNCHANGED <<a, b, c, ray, info, results>>

TransformPoint == Done("transform_point", 0, transform_point(mat, a), FALSE, 0) /\ UNCHANGED Operands
TransformVector == Done("transform_vector", 0, transform_vector(mat, a), FALSE, 0) /\ UNCHANGED Operands

\* ---------------------------------------------------------------- IntersectionInfo calls

\* IntersectionInfo::default(); the result joins those gathered for the selection.
InfoDefault ==
    /\ Len(results) < MaxResults
    /\ info' = IntersectionInfo_default
    /\ results' = Append(results, info')
    /\ Done("IntersectionInfo::default", 0, Vec3_default, FALSE, 0)
    /\ UNCHANGED <<a, b, c, ray, mat>>

\* IntersectionInfo::no_intersection()
NoIntersection ==
    /\ Len(results) < MaxResults
    /\ info' = no_intersection
    /\ results' = Append(results, info')
    /\ Done("no_intersection", 0, Vec3_default, FALSE, 0)
    /\ UNCHANGED <<a, b, c, ray, mat>>

\* An Intersectable reports a hit at a parameter in the ray's range.
IntersectHit(S) ==
    \E t \in S :
        /\ is_in_range(ray, t)
        /\ Len(results) < MaxResults
        /\ info' = Hit(ray, t)
        /\ results' = Append(results, info')
        /\ Done("hit", t, Vec3_default, FALSE, 0)
        /\ UNCHANGED <<a, b, c, ray, mat>>

\* The caller selects the nearest result and starts over.
SelectNearest ==
    /\ results # <<>>
    /\ info' = MinByT(results)
    /\ results' = <<>>
    /\ Done("nearest", 0, Vec3_default, FALSE, 0)
    /\ UNCHANGED <<a, b, c, ray, mat>>

\* ---------------------------------------------------------------- specifications

\* The vector algebra.
NextVec ==
    \/ NewB(VecPoolB) \/ NewC(VecPoolC)
    \/ SetX(CompSet) \/ SetY(CompSet) \/ SetZ(CompSet)
    \/ GetX \/ GetY \/ GetZ
    \/ AreEqual \/ AreEqualSelf \/ Dot
    \/ AddVV \/ AddVR \/ AddRV \/ AddRR
    \/ SubVV \/ SubVR \/ SubRV \/ SubRR
    \/ MulV(ScalarSet) \/ MulR(ScalarSet)
    \/ Add3

SpecVec == Init /\ [][NextVec]_vars

\* The ray.
NextRay ==
    \/ NewA(RayPool) \/ NewB(RayPool)
    \/ RayNew \/ RayDefault
    \/ SetMinT(MinSet) \/ SetMaxT(MaxSet)
    \/ IsInRange(ParamSet) \/ Eval(ScalarSet)

SpecRay == Init /\ [][NextRay]_vars

\* The matrix.
NextMat ==
    \/ NewA(VecPoolB) \/ SetX(CompSet)
    \/ MatDefault \/ MatFrom(MatPool)
    \/ TransformPoint \/ TransformVector

SpecMat == Init /\ [][NextMat]_vars

\* The intersection results.
NextInfo ==
    \/ NewB(TinyPool) \/ RayNew
    \/ InfoDefault \/ NoIntersection \/ IntersectHit(HitSet)
    \/ SelectNearest

SpecInfo == Init /\ [][NextInfo]_vars

\* Every call of the kernel.
Next ==
    \/ NewA(TinyPool) \/ NewB(TinyPool)
    \/ SetX(SmallComp) \/ SetY(SmallComp) \/ SetZ(SmallComp)
    \/ GetX \/ GetY \/ GetZ
    \/ AreEqual \/ Dot
    \/ AddRR \/ AddRV \/ AddVR \/ SubRR \/ SubRV \/ SubVR
    \/ MulR(SmallComp)
    \/ RayNew \/ RayDefault
    \/ IsInRange(SmallComp) \/ Eval(SmallComp)
    \/ MatDefault \/ MatFrom({Affine(<<One, 0, 0>>, <<0, One, 0>>, <<0, 0, One>>, <<One, 0, 0>>)})
    \/ TransformPoint \/ TransformVector

Spec == Init /\ [][Next]_vars

\* ---------------------------------------------------------------- exact arithmetic

\* The real sum x + y of two finite values is a value of the format (no rounding).
ExactAdd(x, y) == IsFinite(x) /\ IsFinite(y) /\ IsRep(x + y)

\* The real product x * y of two finite values is a value of the format.
ExactMul(x, y) ==
    /\ IsFinite(x) /\ IsFinite(y)
    /\ (x * y) % One = 0
    /\ IsRep((x * y) \div One)

\* origin + t * direction is computed without rounding in every coordinate.
ExactEval(r, t) ==
    /\ ExactMul(t, r.direction.x) /\ ExactAdd(r.origin.x, (t * r.direction.x) \div One)
    /\ ExactMul(t, r.direction.y) /\ ExactAdd(r.origin.y, (t * r.direction.y) \div One)
    /\ ExactMul(t, r.direction.z) /\ ExactAdd(r.origin.z, (t * r.direction.z) \div One)

\* u + v is computed without rounding in every coordinate.
ExactVecAdd(u, v) == ExactAdd(u.x, v.x) /\ ExactAdd(u.y, v.y) /\ ExactAdd(u.z, v.z)

VecFinite(v) == IsFinite(v.x) /\ IsFinite(v.y) /\ IsFinite(v.z)

\* The real-number order on Floats: no order with NaN.
RealLess(x, y) == x # NaN /\ y # NaN /\ x < y

\* ---------------------------------------------------------------- claims

\* C1: is_in_range(t) returns true exactly when min_t < t and t < max_t, both
\* strict; the bounds min_t and max_t themselves are never in range.
C1_InRangeStrict ==
    /\ op = "is_in_range" => (outB <=> (RealLess(ray.min_t, s) /\ RealLess(s, ray.max_t)))
    /\ ~is_in_range(ray, ray.min_t)
    /\ ~is_in_range(ray, ray.max_t)

\* C1 witness: with min_t < max_t, the parameter max_t itself is reported out of range.
C1_Witness ==
    /\ op = "is_in_range"
    /\ ray.min_t = FLOAT_ERR /\ ray.max_t = MaxFinite
    /\ s = ray.max_t
    /\ outB = FALSE

\* C2 (as claimed): every Ray3 obtained from a constructor, Ray3::new and
\* Ray3::default alike, has a small positive min_t, an infinite max_t, min_t < max_t
\* and a non-empty valid interval.
C2_ConstructedRaysValid ==
    op \in {"Ray3::new", "Ray3::default"} =>
        /\ ray.min_t > 0
        /\ ray.max_t = PosInf
        /\ RealLess(ray.min_t, ray.max_t)
        /\ \E t \in Floats : is_in_range(ray, t)

\* C3: Ray3::new(origin, direction) keeps its arguments, sets min_t to the positive
\* FLOAT_ERR and max_t to +infinity; so on the fresh ray is_in_range(0) is false and
\* is_in_range(t) is true for every finite t above FLOAT_ERR.
C3_NewRay ==
    op = "Ray3::new" =>
        /\ ray.origin = a
        /\ ray.direction = b
        /\ ray.min_t = FLOAT_ERR
        /\ ray.min_t > 0
        /\ ray.max_t = PosInf
        /\ ~is_in_range(ray, 0)
        /\ \A t \in Floats : t > FLOAT_ERR => is_in_range(ray, t)

\* C3 witness: a ray built from a non-zero origin and a non-zero direction.
C3_Witness ==
    /\ op = "Ray3::new"
    /\ ray.origin # Vec3_default
    /\ ray.direction # Vec3_default
    /\ ray.origin # ray.direction

\* The coordinates of origin + t * direction, each product and sum rounded once.
EvalFormula(r, t) ==
    [x |-> FAdd(r.origin.x, FMul(t, r.direction.x)),
     y |-> FAdd(r.origin.y, FMul(t, r.direction.y)),
     z |-> FAdd(r.origin.z, FMul(t, r.direction.z))]

\* eval(t1 + t2) - origin = (eval(t1) - origin) + (eval(t2) - origin)
LinearAt(r, t1, t2) ==
    CgSub(eval(r, FAdd(t1, t2)), r.origin)
        = CgAdd(CgSub(eval(r, t1), r.origin), CgSub(eval(r, t2), r.origin))

\* C4 (as claimed): eval(t) is origin + t * direction coordinate by coordinate,
\* with no range check; eval(0) is the origin; and eval is linear in t for every
\* pair of parameters.
C4_EvalLinear ==
    op = "eval" =>
        /\ outV = EvalFormula(ray, s)
        /\ eval(ray, 0) = ray.origin
        /\ \A t2 \in ScalarSet : LinearAt(ray, s, t2)

\* C4 (amended): eval(t) is origin + t * direction coordinate by coordinate, with no
\* range check; eval(0) is the origin; and eval(t1 + t2) - origin equals
\* (eval(t1) - origin) + (eval(t2) - origin) whenever t1 + t2 and the products and
\* sums of the three evaluations are computed without rounding.
C4_EvalLinearWhenExact ==
    op = "eval" =>
        /\ outV = EvalFormula(ray, s)
        /\ eval(ray, 0) = ray.origin
        /\ \A t2 \in ScalarSet :
               (/\ ExactAdd(s, t2)
                /\ ExactEval(ray, s) /\ ExactEval(ray, t2) /\ ExactEval(ray, s + t2))
               => LinearAt(ray, s, t2)

\* C4 witness: eval at a parameter outside the valid interval returns a point other
\* than the origin, and the exact case of linearity occurs with non-zero parameters.
C4_Witness ==
    /\ op = "eval"
    /\ s # 0
    /\ ~is_in_range(ray, s)
    /\ outV # ray.origin
    /\ \E t2 \in ScalarSet \ {0} :
           /\ ExactAdd(s, t2)
           /\ ExactEval(ray, s) /\ ExactEval(ray, t2) /\ ExactEval(ray, s + t2)

\* The miss: did_hit false, the point at the origin, t = +infinity.
Miss == [did_hit |-> FALSE, point |-> [x |-> 0, y |-> 0, z |-> 0], t |-> PosInf]

\* C5: IntersectionInfo::default() and IntersectionInfo::no_intersection() both
\* yield did_hit = false, point = (0, 0, 0), t = +infinity; so a miss's t is never
\* below a hit's t, and a minimum-reduction over t of results holding a finite hit
\* selects a hit, never a miss.
C5_MissIsInfinite ==
    /\ op = "IntersectionInfo::default" => info = Miss
    /\ op = "no_intersection" => info = Miss
    /\ \A i, j \in 1 .. Len(results) :
           (~results[i].did_hit /\ results[j].did_hit)
               => /\ ~RealLess(results[i].t, results[j].t)
                  /\ (IsFinite(results[j].t) => RealLess(results[j].t, results[i].t))
    /\ (\E j \in 1 .. Len(results) : results[j].did_hit /\ IsFinite(results[j].t))
           => MinByT(results).did_hit

\* C5 witness: a miss from each constructor gathered around a finite hit.
C5_Witness ==
    /\ op = "no_intersection"
    /\ Len(results) = 3
    /\ results[1] = IntersectionInfo_default
    /\ results[2].did_hit /\ IsFinite(results[2].t)
    /\ results[3] = info
    /\ MinByT(results) = results[2]

C7_AddCommAssoc ==
    /\ op = "add_rr" => are_equal(outV, add_rr(b, a))
    /\ op = "add3" => are_equal(outV, add_rv(a, add_rr(b, c)))

\* C7 (amended): a + b and b + a are the same vector, so are_equal(a + b, b + a)
\* holds whenever no coordinate of the sum overflows; are_equal((a + b) + c,
\* a + (b + c)) holds whenever the four coordinate-wise sums are computed without
\* rounding.
C7_AddCommAssocWhenExact ==
    /\ op = "add_rr" =>
           /\ outV = add_rr(b, a)
           /\ VecFinite(outV) => are_equal(outV, add_rr(b, a))
    /\ op = "add3" =>
           ((/\ ExactVecAdd(a, b) /\ ExactVecAdd(add_rr(a, b), c)
             /\ ExactVecAdd(b, c) /\ ExactVecAdd(a, add_rr(b, c)))
            => are_equal(outV, add_rv(a, add_rr(b, c))))

\* C7 witness: three non-zero vectors whose sums are exact, added left-grouped.
C7_Witness ==
    /\ op = "add3"
    /\ a # Vec3_default /\ b # Vec3_default /\ c # Vec3_default
    /\ a.z # b.z
    /\ ExactVecAdd(a, b) /\ ExactVecAdd(add_rr(a, b), c)
    /\ ExactVecAdd(b, c) /\ ExactVecAdd(a, add_rr(b, c))

\* C8: every ownership variant returns the coordinate-wise result: the four
\* variants of a + b return (a.x+b.x, a.y+b.y, a.z+b.z), the four of a - b return
\* (a.x-b.x, a.y-b.y, a.z-b.z), and both of s * a return (s*a.x, s*a.y, s*a.z).
C8_VariantsAgree ==
    /\ op \in {"add_vv", "add_vr", "add_rv", "add_rr"} =>
           outV = [x |-> FAdd(a.x, b.x), y |-> FAdd(a.y, b.y), z |-> FAdd(a.z, b.z)]
    /\ op \in {"sub_vv", "sub_vr", "sub_rv", "sub_rr"} =>
           outV = [x |-> FSub(a.x, b.x), y |-> FSub(a.y, b.y), z |-> FSub(a.z, b.z)]
    /\ op \in {"mul_v", "mul_r"} =>
           outV = [x |-> FMul(s, a.x), y |-> FMul(s, a.y), z |-> FMul(s, a.z)]

\* C8 witness: the value / reference variant of a - b on vectors whose difference
\* is not its own negation.
C8_Witness ==
    /\ op = "sub_vr"
    /\ outV # CgSub(b, a)
    /\ outV.x # outV.y

\* The linear part of a matrix applied to a vector: the first three columns scaled
\* by the coordinates and summed, the translation column left out.
LinearPart(m, v) ==
    [x |-> FAdd(FAdd(FMul(m.internal[1][1], v.x), FMul(m.internal[2][1], v.y)),
                FMul(m.internal[3][1], v.z)),
     y |-> FAdd(FAdd(FMul(m.internal[1][2], v.x), FMul(m.internal[2][2], v.y)),
                FMul(m.internal[3][2], v.z)),
     z |-> FAdd(FAdd(FMul(m.internal[1][3], v.x), FMul(m.internal[2][3], v.y)),
                FMul(m.internal[3][3], v.z))]

\* C9: transform_vector applies only the linear part, so matrices that differ only
\* in translation transform every vector alike; transform_point applies the
\* translation too: transform_point(p) = transform_vector(p) + translation; and
\* the default matrix is the identity: it returns points and vectors unchanged.
C9_PointsAndVectors ==
    /\ op = "transform_vector" =>
           /\ outV = LinearPart(mat, a)
           /\ \A m2 \in MatPool \cup {Matrix4_default} :
                  SameButTranslation(mat, m2) => transform_vector(m2, a) = outV
    /\ op = "transform_point" =>
           outV = CgAdd(transform_vector(mat, a), Translation(mat))
    /\ (op \in {"transform_point", "transform_vector"} /\ mat = Matrix4_default) =>
           outV = a

\* C9 witness: a point moved by a matrix with a non-zero translation, to a place
\* other than where the same matrix takes it as a vector.
C9_Witness ==
    /\ op = "transform_point"
    /\ a # Vec3_default
    /\ mat.internal[1] # CgIdentity[1]
    /\ Translation(mat) # Vec3_default
    /\ outV # transform_vector(mat, a)

PureOps ==
    {"x", "y", "z", "are_equal", "dot", "add_rr", "add_rv", "add_vr",
     "sub_rr", "sub_rv", "sub_vr", "mul_r", "is_in_range", "eval",
     "transform_point", "transform_vector"}

\* C10: set_x, set_y and set_z change exactly the named coordinate of their vector
\* and nothing else; the getters, are_equal, dot, the by-reference + and -,
\* scalar * &vector, is_in_range, eval, transform_point and transform_vector leave
\* the vectors, the ray and the matrix as they were, in every step of every run.
C10_OnlySettersChange ==
    [][/\ op' = "set_x" =>
              /\ a' = [x |-> s', y |-> a.y, z |-> a.z]
              /\ UNCHANGED <<b, c, ray, mat>>
       /\ op' = "set_y" =>
              /\ a' = [x |-> a.x, y |-> s', z |-> a.z]
              /\ UNCHANGED <<b, c, ray, mat>>
       /\ op' = "set_z" =>
              /\ a' = [x |-> a.x, y |-> a.y, z |-> s']
              /\ UNCHANGED <<b, c, ray, mat>>
       /\ op' \in PureOps => UNCHANGED <<a, b, c, ray, mat>>]_vars

\* C10 witness: set_x has changed x of a vector whose y and z differ from it.
C10_Witness ==
    /\ op = "set_x"
    /\ a = Vec3_new(One, 1, One)
    /\ s = One

====
